---- MODULE Spec2Model ----
(***************************************************************************)
(* Model of src/eval-report.ipynb: the significance analysis of the        *)
(* notebook.  For each of the three top-N metrics (precision, ndcg,        *)
(* recip_rank) one code cell groups the metric table by algorithm and runs *)
(* scipy's friedmanchisquare on the first four groups, and the next code   *)
(* cell runs wilcoxon on every pair of range(4) with a Bonferroni-adjusted *)
(* threshold.  The cells share the kernel's global names (alg_vals,        *)
(* alg_names, stat, p, n_compare, result).                                 *)
(*                                                                         *)
(* Numbers.  A p-value (and the thresholds 0.05, 0.05/6) is an integer     *)
(* count of 1/12000, so that 0.05 = 600 and 0.05/6 = 100 are exact.  NaN   *)
(* is a value of its own and every ordered comparison with it is false, as *)
(* for IEEE floats.  The Wilcoxon statistic T is carried doubled (ranks of *)
(* tied values are half-integers).                                         *)
(*                                                                         *)
(* Library calls.  friedmanchisquare and wilcoxon are scipy functions: the *)
(* argument checks, the ranking and the degenerate cases are modelled from *)
(* what the functions do; the numeric p-value of a well-formed sample is   *)
(* drawn from a small set the first time a sample of that rank structure   *)
(* is tested and remembered (libF, libW), because the functions are        *)
(* deterministic.  Where scipy releases differ (all differences zero,      *)
(* empty samples) every outcome a release produces is possible.            *)
(*                                                                         *)
(* Two specifications.  Spec is Run All: the six cells top to bottom.      *)
(* SpecAnyOrder is a kernel session in which the cells of the first two    *)
(* metrics are run singly, in any order and repeatedly, each metric's      *)
(* omnibus cell before its post-hoc cell.                                  *)
(***************************************************************************)
EXTENDS Integers, Sequences, FiniteSets, TLC

\* Largest number of users (rows) an algorithm has in the metric table.
MaxUsers == 2

\* alpha = 0.05 in wilcox_bonf, in units of 1/12000.
Alpha == 600

\* The significance level of the omnibus test ("If p < 0.05, we reject the
\* null hypothesis"), in units of 1/12000.
OmnibusAlpha == 600

\* range(4) in n_compare, and the four positional arguments alg_vals[0..3]
\* of friedmanchisquare.
NAlgs == 4

NaN == 0 - 1

\* The metric columns, in the order of the notebook's sections.
Metrics == <<"precision", "ndcg", "recip_rank">>

MetricSet == {Metrics[i] : i \in 1..Len(Metrics)}

\* Algorithm identifiers in Python's string order (the order groupby sorts
\* its keys in).  Four of them occur in the recorded output of the notebook.
AlgOrder == <<"ALS", "IALS", "II", "Pop", "UU">>

AlgUniverse == {AlgOrder[i] : i \in 1..Len(AlgOrder)}

Same == "Metric is the same (fail to reject H0)"

Different == "Metric is different (reject H0)"

NoExc == [cell |-> 0, type |-> "none"]

VARIABLES
  results,    \* the metric table after fillna(0): algorithm -> rows
  alg_vals,   \* global: list of sample vectors
  alg_names,  \* global: list of algorithm names
  stat, p,    \* globals assigned by the omnibus cells
  n_compare,  \* global: list of index pairs
  result,     \* global: the last Series returned by wilcox_bonf
  defined,    \* the global names bound so far
  out,        \* printed lines, per code cell
  pc,         \* index in Cells of the cell that runs next
  i,          \* inside a post-hoc cell: position in n_compare of the next pair (0 outside)
  exc,        \* the exception that stopped the run, if any
  libF, libW, \* results scipy has returned so far, by rank structure
  hist        \* history: every library call made, with the threshold in force

vars == <<results, alg_vals, alg_names, stat, p, n_compare, result, defined,
          out, pc, i, exc, libF, libW, hist>>

----------------------------------------------------------------------------
\* Sequences and floats

RECURSIVE SumSeq(_)
SumSeq(s) == IF s = <<>> THEN 0 ELSE Head(s) + SumSeq(Tail(s))

Min(a, b) == IF a <= b THEN a ELSE b

\* a > b on floats: false as soon as one side is NaN
FloatGT(a, b) == a # NaN /\ b # NaN /\ a > b

\* a <= b on floats
FloatLE(a, b) == a # NaN /\ b # NaN /\ a <= b

\* a < b on floats
FloatLT(a, b) == a # NaN /\ b # NaN /\ a < b

----------------------------------------------------------------------------
\* The notebook's cells, top to bottom

Cells ==
  << [metric |-> "precision",  stage |-> "omnibus"],
     [metric |-> "precision",  stage |-> "posthoc"],
     [metric |-> "ndcg",       stage |-> "omnibus"],
     [metric |-> "ndcg",       stage |-> "posthoc"],
     [metric |-> "recip_rank", stage |-> "omnibus"],
     [metric |-> "recip_rank", stage |-> "posthoc"] >>

CellOf(m, stage) ==
  CHOOSE c \in 1..Len(Cells) : Cells[c].metric = m /\ Cells[c].stage = stage

Finished == pc = Len(Cells) + 1

Stopped == exc.type # "none"

----------------------------------------------------------------------------
\* pandas: results.reset_index().groupby("algorithm")

\* Variant of GroupKeys for the sensitivity check of C6: the keys in
\* descending order.
GroupKeysDescending(table) ==
  LET s == SelectSeq(AlgOrder, LAMBDA a : a \in DOMAIN table)
  IN  [j \in 1..Len(s) |-> s[Len(s) + 1 - j]]

\* The group keys in sorted order.  'algorithm' is a categorical column: a
\* category without rows is a group of its own, with no rows.
GroupKeys(table) == SelectSeq(AlgOrder, LAMBDA a : a \in DOMAIN table)

\* data[m].to_numpy()
Column(rows, m) == [j \in 1..Len(rows) |-> rows[j][m]]

\* The lists the grouping loop builds by appending one group at a time.
GroupNames(table) == GroupKeys(table)

GroupVals(table, m) ==
  [j \in 1..Len(GroupKeys(table)) |-> Column(table[GroupKeys(table)[j]], m)]

----------------------------------------------------------------------------
\* itertools: list(combinations(list(range(n)), 2))

RECURSIVE CombFrom(_, _, _)
CombFrom(a, b, n) ==
  IF a >= n - 1 THEN <<>>
  ELSE IF b >= n THEN CombFrom(a + 1, a + 2, n)
  ELSE << <<a, b>> >> \o CombFrom(a, b + 1, n)

Combinations(n) == CombFrom(0, 1, n)

----------------------------------------------------------------------------
\* scipy.stats: ranking (rankdata with average ranks, doubled)

Rank2(v, j) ==
  2 * Cardinality({t \in 1..Len(v) : v[t] < v[j]})
    + Cardinality({t \in 1..Len(v) : v[t] = v[j]}) + 1

Ranks2(v) == [j \in 1..Len(v) |-> Rank2(v, j)]

Abs(x) == IF x < 0 THEN 0 - x ELSE x

\* What a library call gives back: an exception, or a (statistic, p-value).
Raise(type) == [exc |-> type, stat |-> NaN, p |-> NaN]

Return(s, q) == [exc |-> "none", stat |-> s, p |-> q]

----------------------------------------------------------------------------
\* scipy.stats.wilcoxon(x, y), zero_method="wilcox", two-sided

\* p-values a well-formed sample can get: below 0.05/6, exactly 0.05/6,
\* between 0.05/6 and 0.05, and 0.4.
WilcoxonPValues == {50, 100, 300, 4800}

Diffs(x, y) == [j \in 1..Len(x) |-> x[j] - y[j]]

\* zero differences are dropped before ranking
NonZero(d) == SelectSeq(d, LAMBDA e : e # 0)

AbsRanks2(d) == Ranks2([j \in 1..Len(d) |-> Abs(d[j])])

\* T = min(r_plus, r_minus), doubled
WilcoxonT2(d) ==
  LET r == AbsRanks2(d)
      plus == SumSeq([j \in 1..Len(d) |-> IF d[j] > 0 THEN r[j] ELSE 0])
      minus == SumSeq([j \in 1..Len(d) |-> IF d[j] < 0 THEN r[j] ELSE 0])
  IN  Min(plus, minus)

\* The result depends on the sample only through the ranks of the nonzero
\* absolute differences and T.
WilcoxonKey(x, y) ==
  LET d == NonZero(Diffs(x, y)) IN <<WilcoxonT2(d)>> \o AbsRanks2(d)

\* All paired differences are zero (also: both samples empty).
Degenerate(x, y) == Len(x) = Len(y) /\ NonZero(Diffs(x, y)) = <<>>

\* The outcomes of wilcoxon(x, y) given what the library returned before.
\*  - unequal lengths: ValueError('Unequal N in wilcoxon.  Aborting.')
\*  - no nonzero difference: releases before 1.3 divide 0 by 0 and return
\*    T = 0 with p = NaN; later releases raise ValueError
\*  - otherwise a statistic and a p-value
WilcoxonOutcomes(x, y, memo) ==
  IF Len(x) # Len(y) THEN {Raise("ValueError")}
  ELSE IF WilcoxonKey(x, y) \in DOMAIN memo THEN {memo[WilcoxonKey(x, y)]}
  ELSE IF Degenerate(x, y) THEN {Raise("ValueError"), Return(0, NaN)}
  ELSE {Return(WilcoxonT2(NonZero(Diffs(x, y))), q) : q \in WilcoxonPValues}

----------------------------------------------------------------------------
\* scipy.stats.friedmanchisquare(*args)

\* p-values a well-formed sample can get: below 0.05, exactly 0.05, and 0.4.
FriedmanPValues == {12, 600, 4800}

UnequalN(args) == \E a \in 1..Len(args) : Len(args[a]) # Len(args[1])

\* The within-user ranks of the samples, one rank vector per user.
FriedmanRanks(args) ==
  [u \in 1..Len(args[1]) |-> Ranks2([a \in 1..Len(args) |-> args[a][u]])]

\* Every user has the same score under every algorithm: the tie correction
\* c is 0 and chisq = 0/0.
FullyTied(args) ==
  \A u \in 1..Len(args[1]) : \A a \in 1..Len(args) : args[a][u] = args[1][u]

\* The statistic is carried as the sum of the squared column rank sums,
\* of which chisq is an affine function for given n, k and ties.
FriedmanStat(args) ==
  LET rk == FriedmanRanks(args)
      col(a) == SumSeq([u \in 1..Len(rk) |-> rk[u][a]])
  IN  SumSeq([a \in 1..Len(args) |-> col(a) * col(a)])

\* Variant of FriedmanOutcomes for the sensitivity check of C14: a test
\* whose p-value for a sample is drawn anew at every call.
FriedmanOutcomesAnew(args, memo) ==
  IF Len(args) < 3 \/ UnequalN(args) THEN {Raise("ValueError")}
  ELSE IF FullyTied(args) THEN {Return(NaN, NaN)}
  ELSE {Return(FriedmanStat(args), q) : q \in FriedmanPValues}

\* The outcomes of friedmanchisquare(*args) given what it returned before.
\*  - fewer than 3 samples: ValueError('Less than 3 levels')
\*  - unequal lengths: ValueError('Unequal N in friedmanchisquare')
\*  - no user at all: the tie correction divides by k*(k*k-1)*n = 0
\*    (ZeroDivisionError); releases that vectorise the test return NaN
\*  - every row fully tied: NaN statistic and p-value
\*  - otherwise a statistic and a p-value
FriedmanOutcomes(args, memo) ==
  IF Len(args) < 3 THEN {Raise("ValueError")}
  ELSE IF UnequalN(args) THEN {Raise("ValueError")}
  ELSE IF FriedmanRanks(args) \in DOMAIN memo THEN {memo[FriedmanRanks(args)]}
  ELSE IF Len(args[1]) = 0 THEN {Raise("ZeroDivisionError"), Return(NaN, NaN)}
  ELSE IF FullyTied(args) THEN {Return(NaN, NaN)}
  ELSE {Return(FriedmanStat(args), q) : q \in FriedmanPValues}

\* The library's memory after a call.
Remember(memo, key, o) ==
  IF key \in DOMAIN memo THEN memo ELSE memo @@ (key :> o)

----------------------------------------------------------------------------
\* The post-hoc cells: wilcox_bonf and the printed lines

\* Variant of NewAlpha for the sensitivity check of C3: alpha divided by
\* the number of algorithms instead of the number of pairs.
NewAlphaPerAlgorithm(ncmp) == Alpha \div NAlgs

\* new_alpha = alpha/len(n_compare)
NewAlpha(ncmp) == Alpha \div Len(ncmp)

\* wilcox_bonf(data1, data2, alg_pair), with w what wilcoxon(data1, data2)
\* returned: the 'if p > new_alpha' branch and the Series.
wilcox_bonf(w, alg_pair, ncmp) ==
  [Pair |-> alg_pair,
   Statistics |-> w.stat,
   p_value |-> w.p,
   Decision |-> IF FloatGT(w.p, NewAlpha(ncmp)) THEN Same ELSE Different]

NoResult == [Pair |-> <<>>, Statistics |-> NaN, p_value |-> NaN, Decision |-> ""]

\* '%.3f' of a p-value: rounded to a multiple of 0.001 (12 units); nan stays.
Fmt3(x) == IF x = NaN THEN NaN ELSE ((x + 6) \div 12) * 12

\* print('Statistics=%.3f, p=%.3f' % (stat, p))
OmnibusLine(s, q) ==
  [Pair |-> <<>>, Statistics |-> s, p_value |-> Fmt3(q), Decision |-> ""]

\* print('%s, Statistics=%.3f, p-value=%.3f, %s' % (...))
PairLine(r) ==
  [Pair |-> r.Pair, Statistics |-> r.Statistics, p_value |-> Fmt3(r.p_value),
   Decision |-> r.Decision]

\* One entry of the history of library calls.
Call(c, fn, args, names, ret, alpha, decision) ==
  [cell |-> c, fn |-> fn, args |-> args, names |-> names, ret |-> ret,
   new_alpha |-> alpha, decision |-> decision]

----------------------------------------------------------------------------
\* The metric table

\* The score of algorithm a: 0 when it is one of the tied algorithms,
\* otherwise a level of its own.
Level(a, tied) ==
  IF a \in tied THEN 0 ELSE CHOOSE j \in 1..Len(AlgOrder) : AlgOrder[j] = a

\* The sets of tied algorithms a metric column is drawn with: none, the
\* first two in sorted order, or all.
TiePatterns(algs) ==
  LET s == SelectSeq(AlgOrder, LAMBDA a : a \in algs)
  IN  {{}, {s[j] : j \in 1..Min(2, Len(s))}, algs}

\* The table with n users per algorithm, except that algorithm `short`
\* (if any) lacks the last user; tie[m] are the algorithms tied on metric m.
Table(algs, n, short, tie) ==
  [a \in algs |->
     [u \in 1..(IF a = short THEN n - 1 ELSE n) |->
        [user |-> u,
         precision |-> Level(a, tie["precision"]),
         ndcg |-> Level(a, tie["ndcg"]),
         recip_rank |-> Level(a, tie["recip_rank"])]]]

\* The first of the algorithms in sorted order.
FirstOf(algs) == Head(SelectSeq(AlgOrder, LAMBDA a : a \in algs))

\* The table with the user keys of algorithm `moved` (if any) shifted by
\* one: its recommendation files cover another set of users.
Reindex(table, moved) ==
  [a \in DOMAIN table |->
     [u \in DOMAIN table[a] |->
        IF a = moved THEN [table[a][u] EXCEPT !.user = @ + 1] ELSE table[a][u]]]

\* rla.compute(recs, test, include_missing=True): the last user of
\* algorithm `missing` (if any) has no recommendation list, and the metric
\* columns of that row are NaN.
compute(table, missing) ==
  [a \in DOMAIN table |->
     [u \in DOMAIN table[a] |->
        IF a = missing /\ u = Len(table[a])
        THEN [user |-> table[a][u].user, precision |-> NaN, ndcg |-> NaN,
              recip_rank |-> NaN]
        ELSE table[a][u]]]

\* Variant of fillna for the sensitivity check of C13: the table is left
\* as computed.
KeepNa(table) == table

\* results.fillna(0)
fillna(table) ==
  [a \in DOMAIN table |->
     [u \in DOMAIN table[a] |->
        [user |-> table[a][u].user,
         precision |-> IF table[a][u].precision = NaN THEN 0 ELSE table[a][u].precision,
         ndcg |-> IF table[a][u].ndcg = NaN THEN 0 ELSE table[a][u].ndcg,
         recip_rank |-> IF table[a][u].recip_rank = NaN THEN 0
                        ELSE table[a][u].recip_rank]]]

Init ==
  /\ \E algs \in SUBSET AlgUniverse \ {{}} :
     \E n \in 1..MaxUsers :
     \E short \in algs \cup {"none"} :
     \E tie \in [MetricSet -> TiePatterns(algs)] :
     \E moved \in {FirstOf(algs), "none"} :
     \E missing \in {FirstOf(algs), "none"} :
        /\ short # "none" => Cardinality(algs) > 1 /\ \A m \in MetricSet : tie[m] = {}
        /\ moved # "none" =>
             short = "none" /\ missing = "none" /\ \A m \in MetricSet : tie[m] = {}
        /\ missing # "none" => short = "none" /\ \A m \in MetricSet : tie[m] = {}
        /\ results = fillna(compute(Reindex(Table(algs, n, short, tie), moved), missing))
  /\ alg_vals = <<>>
  /\ alg_names = <<>>
  /\ stat = NaN
  /\ p = NaN
  /\ n_compare = <<>>
  /\ result = NoResult
  /\ defined = {}
  /\ out = [c \in 1..Len(Cells) |-> <<>>]
  /\ pc = 1
  /\ i = 0
  /\ exc = NoExc
  /\ libF = <<>>
  /\ libW = <<>>
  /\ hist = <<>>

----------------------------------------------------------------------------
\* The cells

\* An omnibus cell: the grouping loop, friedmanchisquare on alg_vals[0..3],
\* and the print.
FriedmanCell(m) ==
  /\ ~Stopped
  /\ pc = CellOf(m, "omnibus")
  /\ alg_vals' = GroupVals(results, m)
  /\ alg_names' = GroupNames(results)
  /\ IF Len(alg_vals') < NAlgs
     THEN \* alg_vals[3]: list index out of range
          /\ exc' = [cell |-> pc, type |-> "IndexError"]
          /\ defined' = defined \cup {"alg_vals", "alg_names"}
          /\ UNCHANGED <<stat, p, out, pc, libF, hist>>
     ELSE \E w \in FriedmanOutcomes(SubSeq(alg_vals', 1, NAlgs), libF) :
          /\ hist' = Append(hist, Call(pc, "friedmanchisquare",
                                       SubSeq(alg_vals', 1, NAlgs),
                                       SubSeq(alg_names', 1, NAlgs), w, NaN, ""))
          /\ libF' = IF UnequalN(SubSeq(alg_vals', 1, NAlgs)) THEN libF
                     ELSE Remember(libF, FriedmanRanks(SubSeq(alg_vals', 1, NAlgs)), w)
          /\ IF w.exc # "none"
             THEN /\ exc' = [cell |-> pc, type |-> w.exc]
                  /\ defined' = defined \cup {"alg_vals", "alg_names"}
                  /\ UNCHANGED <<stat, p, out, pc>>
             ELSE /\ stat' = w.stat
                  /\ p' = w.p
                  /\ defined' = defined \cup {"alg_vals", "alg_names", "stat", "p"}
                  /\ out' = [out EXCEPT ![pc] = Append(@, OmnibusLine(w.stat, w.p))]
                  /\ pc' = pc + 1
                  /\ UNCHANGED exc
  /\ UNCHANGED <<results, n_compare, result, i, libW>>

\* A post-hoc cell up to its loop: n_compare and the def of wilcox_bonf.
PosthocCell(m) ==
  /\ ~Stopped
  /\ pc = CellOf(m, "posthoc")
  /\ i = 0
  /\ n_compare' = Combinations(NAlgs)
  /\ defined' = defined \cup {"n_compare", "wilcox_bonf"}
  /\ IF n_compare' = <<>>
     THEN pc' = pc + 1 /\ i' = 0
     ELSE pc' = pc /\ i' = 1
  /\ UNCHANGED <<results, alg_vals, alg_names, stat, p, result, out, exc,
                 libF, libW, hist>>

\* One turn of 'for idx in n_compare': wilcox_bonf on the two vectors the
\* pair indexes, and the print.
PosthocPair(m) ==
  /\ ~Stopped
  /\ pc = CellOf(m, "posthoc")
  /\ i >= 1
  /\ LET idx == n_compare[i]
     IN  IF ~({"alg_vals", "alg_names"} \subseteq defined)
         THEN /\ exc' = [cell |-> pc, type |-> "NameError"]
              /\ UNCHANGED <<result, out, pc, i, libW, hist>>
         ELSE IF idx[2] + 1 > Len(alg_vals)
         THEN \* alg_vals[idx[1]]: list index out of range
              /\ exc' = [cell |-> pc, type |-> "IndexError"]
              /\ UNCHANGED <<result, out, pc, i, libW, hist>>
         ELSE LET data1 == alg_vals[idx[1] + 1]
                  data2 == alg_vals[idx[2] + 1]
                  alg_pair == <<alg_names[idx[1] + 1], alg_names[idx[2] + 1]>>
              IN  \E w \in WilcoxonOutcomes(data1, data2, libW) :
                  /\ libW' = IF Len(data1) # Len(data2) THEN libW
                             ELSE Remember(libW, WilcoxonKey(data1, data2), w)
                  /\ IF w.exc # "none"
                     THEN /\ hist' = Append(hist, Call(pc, "wilcoxon", <<data1, data2>>,
                                                       alg_pair, w, NaN, ""))
                          /\ exc' = [cell |-> pc, type |-> w.exc]
                          /\ UNCHANGED <<result, out, pc, i>>
                     ELSE /\ result' = wilcox_bonf(w, alg_pair, n_compare)
                          /\ hist' = Append(hist, Call(pc, "wilcoxon", <<data1, data2>>,
                                                       alg_pair, w, NewAlpha(n_compare),
                                                       result'.Decision))
                          /\ out' = [out EXCEPT ![pc] = Append(@, PairLine(result'))]
                          /\ i' = IF i = Len(n_compare) THEN 0 ELSE i + 1
                          /\ pc' = IF i = Len(n_compare) THEN pc + 1 ELSE pc
                          /\ UNCHANGED exc
  /\ defined' = defined \cup {"idx", "result"}
  /\ UNCHANGED <<results, alg_vals, alg_names, stat, p, n_compare, libF>>

\* Run All (the notebook has a papermill "parameters" cell and its recorded
\* execution counts are in order): the cells run top to bottom, no cell
\* catches an exception, and the run stops at the first one.
Next ==
  \E m \in MetricSet : FriedmanCell(m) \/ PosthocCell(m) \/ PosthocPair(m)

Spec == Init /\ [][Next]_vars

----------------------------------------------------------------------------
\* Reading the history

\* The library calls made by cell c, in order.
CallsOf(c) == SelectSeq(hist, LAMBDA e : e.cell = c)

\* The calls of cell c that returned a result.
ReturnsOf(c) == SelectSeq(hist, LAMBDA e : e.cell = c /\ e.ret.exc = "none")

\* Cell c ran to its end.
Completed(c) == pc > c

Omnibus(m) == CellOf(m, "omnibus")

Posthoc(m) == CellOf(m, "posthoc")

\* The algorithms of the input.
InputAlgs == DOMAIN results

K == Cardinality(InputAlgs)

\* Position of an identifier in string order.
Pos(a) == CHOOSE j \in 1..Len(AlgOrder) : AlgOrder[j] = a

NoDifference == "no significant difference found"

Undefined == "undefined"

NotApplicable == "not applicable"

\* The lines of metric m's two cells.
LinesOf(m) == out[Omnibus(m)] \o out[Posthoc(m)]

\* The omnibus test of m returned a p-value >= 0.05.
NotSignificant(m) ==
  \E j \in 1..Len(hist) :
    /\ hist[j].cell = Omnibus(m) /\ hist[j].ret.exc = "none"
    /\ FloatLE(OmnibusAlpha, hist[j].ret.p)

\* The omnibus test of m returned a p-value < 0.05.
Significant(m) ==
  \E j \in 1..Len(hist) :
    /\ hist[j].cell = Omnibus(m) /\ hist[j].ret.exc = "none"
    /\ FloatLT(hist[j].ret.p, OmnibusAlpha)

----------------------------------------------------------------------------
\* C1: if the omnibus p-value of a metric is >= 0.05 its evaluation ends
\* with exactly one "no significant difference" record and no Wilcoxon
\* test; a Wilcoxon test of a metric is only made after an omnibus p-value
\* < 0.05 of that metric.  (The post-hoc cells run whatever p is.)
C1_PosthocOnlyWhenSignificant ==
  \A m \in MetricSet :
    /\ \A j \in 1..Len(hist) :
         hist[j].cell = Posthoc(m) /\ hist[j].fn = "wilcoxon"
         => \E h \in 1..(j - 1) :
              /\ hist[h].cell = Omnibus(m) /\ hist[h].ret.exc = "none"
              /\ FloatLT(hist[h].ret.p, OmnibusAlpha)
    /\ NotSignificant(m) /\ Completed(Omnibus(m))
       => /\ Len(SelectSeq(LinesOf(m), LAMBDA l : l.Decision = NoDifference)) = 1
          /\ CallsOf(Posthoc(m)) = <<>>

\* C2: a pair's decision is "different" if and only if its p-value is <=
\* the adjusted threshold, and "same" otherwise.  (A NaN p-value, which
\* wilcoxon returns for a pair without nonzero difference, is not <= the
\* threshold and is decided "different".)
C2_DifferentIffAtMostThreshold ==
  \A j \in 1..Len(hist) :
    hist[j].fn = "wilcoxon" /\ hist[j].ret.exc = "none"
    => hist[j].decision =
         (IF FloatLE(hist[j].ret.p, hist[j].new_alpha) THEN Different ELSE Same)

\* C3: in a post-hoc cell every pair is decided against the same threshold,
\* and that threshold times the number of pairs the cell compares is 0.05.
C3_ThresholdIsAlphaOverPairs ==
  \A c \in 1..Len(Cells) :
    Cells[c].stage = "posthoc" =>
      LET r == ReturnsOf(c)
      IN  /\ \A a, b \in 1..Len(r) : r[a].new_alpha = r[b].new_alpha
          /\ \A a \in 1..Len(r) : r[a].new_alpha * Len(n_compare) = Alpha
          /\ Completed(c) =>
               \A a \in 1..Len(r) : r[a].new_alpha * Len(CallsOf(c)) = Alpha

\* A post-hoc cell has compared all its pairs.
C3_Witness ==
  \E c \in 1..Len(Cells) :
    Cells[c].stage = "posthoc" /\ Completed(c) /\ Len(ReturnsOf(c)) = 6

\* C4: when the omnibus test of a metric is significant, its post-hoc stage
\* produces k*(k-1)/2 pair results, k the number of algorithms of the input.
\* (The other half of the claim, no pair result when it is not significant,
\* is C1's.)
C4_PairCountIsKChoose2 ==
  \A m \in MetricSet :
    Significant(m) /\ Completed(Posthoc(m))
    => 2 * Len(out[Posthoc(m)]) = K * (K - 1)

\* C5: a completed post-hoc stage has compared every unordered pair of
\* distinct input algorithms exactly once.
C5_EveryPairExactlyOnce ==
  \A m \in MetricSet :
    Completed(Posthoc(m)) =>
      LET r == CallsOf(Posthoc(m))
      IN  /\ \A a \in 1..Len(r) : r[a].names[1] # r[a].names[2]
          /\ \A a, b \in 1..Len(r) :
               a # b => {r[a].names[1], r[a].names[2]} # {r[b].names[1], r[b].names[2]}
          /\ \A x, y \in InputAlgs :
               x # y => \E a \in 1..Len(r) : {r[a].names[1], r[a].names[2]} = {x, y}

\* C6: the pair lines of a post-hoc cell come in strictly increasing
\* lexicographic order of the identifiers' positions in string order, and
\* for the algorithms ALS, IALS, II, UU a completed cell prints exactly the
\* six pairs (ALS,IALS), (ALS,II), (ALS,UU), (IALS,II), (IALS,UU), (II,UU).
C6_PairsInCombinationOrder ==
  \A c \in 1..Len(Cells) :
    Cells[c].stage = "posthoc" =>
      LET q == [j \in 1..Len(out[c]) |-> out[c][j].Pair]
      IN  /\ \A j \in 1..Len(q) : Pos(q[j][1]) < Pos(q[j][2])
          /\ \A j \in 1..(Len(q) - 1) :
               \/ Pos(q[j][1]) < Pos(q[j + 1][1])
               \/ Pos(q[j][1]) = Pos(q[j + 1][1]) /\ Pos(q[j][2]) < Pos(q[j + 1][2])
          /\ Completed(c) /\ InputAlgs = {"ALS", "IALS", "II", "UU"}
             => q = << <<"ALS", "IALS">>, <<"ALS", "II">>, <<"ALS", "UU">>,
                       <<"IALS", "II">>, <<"IALS", "UU">>, <<"II", "UU">> >>

\* The run on ALS, IALS, II, UU has finished all three metrics.
C6_Witness ==
  /\ InputAlgs = {"ALS", "IALS", "II", "UU"}
  /\ Finished
  /\ \A m \in MetricSet : Len(out[Posthoc(m)]) = 6

\* C7: a pair whose paired differences are all zero gets the decision
\* "undefined".  (wilcoxon raises, or returns NaN and the pair is decided
\* "different".)
C7_DegeneratePairIsUndefined ==
  \A j \in 1..Len(hist) :
    /\ hist[j].fn = "wilcoxon"
    /\ Len(hist[j].args[1]) > 0
    /\ Degenerate(hist[j].args[1], hist[j].args[2])
    => hist[j].decision = Undefined

\* C8: with fewer than 3 algorithms no test is attempted, no exception
\* stops the run, and the first cell reports "not applicable".
C8_FewerThanThreeNotApplicable ==
  K < 3 =>
    /\ ~Stopped
    /\ hist = <<>>
    /\ pc > 1 => \E j \in 1..Len(out[1]) : out[1][j].Decision = NotApplicable

\* C9: an error of one metric's evaluation is an entry of that cell's
\* output and the cells of the remaining metrics still run.  (Stated for
\* the errors of a post-hoc cell: the run stops there with the exception.)
C9_ErrorsStayLocal ==
  Stopped /\ Cells[exc.cell].stage = "posthoc" =>
    /\ \E j \in 1..Len(out[exc.cell]) :
         out[exc.cell][j].Decision \in {Undefined, NotApplicable}
    /\ Cells[exc.cell].metric # Metrics[Len(Metrics)] => ENABLED Next

\* Two groups of unequal length, or an empty group.
Malformed ==
  \/ \E a, b \in InputAlgs : Len(results[a]) # Len(results[b])
  \/ \E a \in InputAlgs : Len(results[a]) = 0

\* C10: on malformed input the run fails in its first cell, no library
\* call returns a statistic and nothing is printed.
C10_MalformedFailsFirst ==
  Malformed =>
    /\ \A j \in 1..Len(hist) : hist[j].ret.exc # "none"
    /\ \A c \in 1..Len(Cells) : out[c] = <<>>
    /\ pc = 1

----------------------------------------------------------------------------
\* The user keys of the rows of algorithm a, in row order.
UsersOf(a) == [j \in 1..Len(results[a]) |-> results[a][j].user]

\* C11: the sample vectors of every test that returned a result have equal
\* length, and position j of each of them is the score of the same user.
\* (The grouping loop takes each group's column by position.)
C11_SamplesPairedByUser ==
  \A j \in 1..Len(hist) :
    hist[j].ret.exc = "none" =>
      \A x, y \in 1..Len(hist[j].names) :
        /\ Len(hist[j].args[x]) = Len(hist[j].args[y])
        /\ UsersOf(hist[j].names[x]) = UsersOf(hist[j].names[y])

----------------------------------------------------------------------------
\* The cells run one at a time in any order (a notebook's cells can be run
\* singly), each metric's omnibus cell before its post-hoc cell.

\* The number of cell runs in one session.
MaxRuns == 5

\* The cells a session runs: those of the first two metrics.
SessionCells == 1..4

\* The history entry that marks the start of a run of cell c.
RunMark(c) == Call(c, "run", <<>>, <<>>, Return(NaN, NaN), NaN, "")

\* The positions in hist where a cell run starts.
Runs == {k \in 1..Len(hist) : hist[k].fn = "run"}

\* The stage of the last cell of metric m that was run, if any.
LastStage(m) ==
  LET r == {k \in Runs : Cells[hist[k].cell].metric = m}
  IN  IF r = {} THEN "none"
      ELSE Cells[hist[CHOOSE k \in r : \A h \in r : h <= k].cell].stage

\* The cell pc has been started and has not ended.
Started == hist # <<>> /\ hist[Len(hist)].cell = pc

\* The kernel starts to run cell c; what the cell printed before is
\* replaced.
RunCell(c) ==
  /\ ~Stopped
  /\ ~Started
  /\ c \in SessionCells
  /\ Cardinality(Runs) < MaxRuns
  /\ IF Cells[c].stage = "omnibus"
     THEN LastStage(Cells[c].metric) \in {"none", "posthoc"}
     ELSE LastStage(Cells[c].metric) = "omnibus"
  /\ pc' = c
  /\ out' = [out EXCEPT ![c] = <<>>]
  /\ hist' = Append(hist, RunMark(c))
  /\ UNCHANGED <<results, alg_vals, alg_names, stat, p, n_compare, result,
                 defined, i, exc, libF, libW>>

NextAnyOrder ==
  \/ \E c \in 1..Len(Cells) : RunCell(c)
  \/ Started /\ Next

\* The inputs of a session: the first k <= 4 algorithms in sorted order,
\* every algorithm with the same users, every row computed from a
\* recommendation list, and recip_rank (whose cells the session does not
\* run) as precision.
SessionInput ==
  /\ \E k \in 1..NAlgs : InputAlgs = {AlgOrder[j] : j \in 1..k}
  /\ \A a \in InputAlgs :
       /\ Len(results[a]) = Len(results[AlgOrder[1]])
       /\ \A u \in 1..Len(results[a]) :
            /\ results[a][u].user = u
            /\ results[a][u].recip_rank = results[a][u].precision
            /\ \A m \in MetricSet : results[a][u][m] = results[a][1][m]

InitAnyOrder == Init /\ SessionInput

SpecAnyOrder == InitAnyOrder /\ [][NextAnyOrder]_vars

\* The line metric m's post-hoc cell prints for the pair idx when it
\* compares m's own vectors, given what the library returns for them.
OwnPairLine(m, idx) ==
  LET x == GroupVals(results, m)[idx[1] + 1]
      y == GroupVals(results, m)[idx[2] + 1]
      names == <<GroupNames(results)[idx[1] + 1], GroupNames(results)[idx[2] + 1]>>
  IN  PairLine(wilcox_bonf(libW[WilcoxonKey(x, y)], names, Combinations(NAlgs)))

\* C12: whatever the order in which the cells of the metrics are run, the
\* j-th line of a metric's post-hoc cell is the one the cell prints when the
\* metric is evaluated alone: the result, for the j-th pair, of the test of
\* that metric's own two vectors.  (The post-hoc cell reads the globals
\* alg_vals and alg_names, which hold the vectors of the omnibus cell that
\* ran last.)
C12_OrderIndependent ==
  \A m \in MetricSet :
    \A j \in 1..Len(out[Posthoc(m)]) :
      LET idx == Combinations(NAlgs)[j]
          x == GroupVals(results, m)[idx[1] + 1]
          y == GroupVals(results, m)[idx[2] + 1]
      IN  Len(x) = Len(y) /\ WilcoxonKey(x, y) \in DOMAIN libW
          => /\ libW[WilcoxonKey(x, y)].exc = "none"
             /\ out[Posthoc(m)][j] = OwnPairLine(m, idx)

----------------------------------------------------------------------------
\* C13: no sample vector passed to friedmanchisquare or wilcoxon, and no
\* vector in alg_vals, contains a missing value (NaN): the missing metric
\* values of the table were replaced by 0 before the first test.
C13_NoMissingValueInSamples ==
  /\ \A j \in 1..Len(hist) :
       \A k \in 1..Len(hist[j].args) :
         \A u \in 1..Len(hist[j].args[k]) : hist[j].args[k][u] # NaN
  /\ \A k \in 1..Len(alg_vals) :
       \A u \in 1..Len(alg_vals[k]) : alg_vals[k][u] # NaN

\* A test has returned a result for a vector in which a user's missing
\* value is 0 and another user has a score above 0 (an algorithm's scores
\* are equal for all its users unless a missing value was filled).
C13_Witness ==
  \E j \in 1..Len(hist) :
    /\ hist[j].fn = "wilcoxon"
    /\ hist[j].ret.exc = "none"
    /\ \E u, v \in 1..Len(hist[j].args[1]) :
         hist[j].args[1][u] > 0 /\ hist[j].args[1][v] = 0

----------------------------------------------------------------------------
\* The last history entry of the run that starts at k.
RunEnd(k) ==
  LET later == {h \in Runs : h > k}
  IN  IF later = {} THEN Len(hist)
      ELSE (CHOOSE h \in later : \A g \in later : h <= g) - 1

\* The line printed for a library call that returned.
LineOf(e) ==
  IF e.fn = "friedmanchisquare" THEN OmnibusLine(e.ret.stat, e.ret.p)
  ELSE PairLine([Pair |-> e.names, Statistics |-> e.ret.stat,
                 p_value |-> e.ret.p, Decision |-> e.decision])

\* The lines printed by the run that starts at k, in order.
LinesOfRun(k) ==
  LET r == SelectSeq(SubSeq(hist, k + 1, RunEnd(k)), LAMBDA e : e.ret.exc = "none")
  IN  [j \in 1..Len(r) |-> LineOf(r[j])]

\* The run that starts at k is part of an evaluation: an omnibus cell, or a
\* post-hoc cell run right after the omnibus cell of its metric.
Proper(k) ==
  \/ Cells[hist[k].cell].stage = "omnibus"
  \/ \E h \in Runs :
       /\ h < k /\ hist[h].cell = hist[k].cell - 1
       /\ \A g \in Runs : ~(h < g /\ g < k)

\* The run that starts at k is over.
Ended(k) == RunEnd(k) < Len(hist) \/ ~Started \/ Stopped

\* The run that starts at k was stopped by an exception.
Raised(k) == Stopped /\ RunEnd(k) = Len(hist)

IsPrefix(s, t) == Len(s) <= Len(t) /\ s = SubSeq(t, 1, Len(s))

----------------------------------------------------------------------------
\* C15: an evaluation changes no module-level state: when the evaluation
\* of the first metric is over, alg_vals, alg_names, stat, p, n_compare and
\* result are as they were before it, and no global name has been bound.
\* (The cells assign these names at module level.)
C15_NoSideEffect ==
  pc = Omnibus(Metrics[2]) =>
    /\ alg_vals = <<>> /\ alg_names = <<>>
    /\ stat = NaN /\ p = NaN
    /\ n_compare = <<>>
    /\ result = NoResult
    /\ defined = {}

----------------------------------------------------------------------------
\* The p-value 1.0, in units of 1/12000.
MaxP == 12000

\* The history entry e is a Wilcoxon test of two vectors with the same
\* score for every user.
IdenticalPair(e) ==
  e.fn = "wilcoxon" /\ Len(e.args[1]) > 0 /\ e.args[1] = e.args[2]

\* C16: among four algorithms, the test of two algorithms with identical
\* scores ends with p-value 1.0 and "same", or with "undefined", and all
\* such tests end the same way; none is decided "different".  (wilcoxon
\* raises, or returns NaN and the pair is decided "different".)
C16_IdenticalPairNeverDifferent ==
  K = 4 =>
    /\ \A j \in 1..Len(hist) :
         IdenticalPair(hist[j]) =>
           \/ hist[j].decision = Same /\ hist[j].ret.p = MaxP
           \/ hist[j].decision = Undefined
    /\ \A j, h \in 1..Len(hist) :
         IdenticalPair(hist[j]) /\ IdenticalPair(hist[h])
         => hist[j].decision = hist[h].decision

----------------------------------------------------------------------------
\* C17: with 3 or more algorithms, a metric's omnibus cell calls
\* friedmanchisquare, and the call passes the vector of every algorithm of
\* the input exactly once.  (The call passes alg_vals[0..3].)
C17_OmnibusOnAllAlgorithms ==
  K >= 3 =>
    /\ \A j \in 1..Len(hist) :
         hist[j].fn = "friedmanchisquare" =>
           /\ Len(hist[j].names) = K
           /\ {hist[j].names[x] : x \in 1..Len(hist[j].names)} = InputAlgs
           /\ \A x \in 1..Len(hist[j].names) :
                hist[j].args[x] =
                  Column(results[hist[j].names[x]], Cells[hist[j].cell].metric)
    /\ \A m \in MetricSet :
         pc > Omnibus(m) \/ (Stopped /\ exc.cell = Omnibus(m))
         => \E j \in 1..Len(hist) :
              hist[j].cell = Omnibus(m) /\ hist[j].fn = "friedmanchisquare"

----------------------------------------------------------------------------
\* Where the evaluation of metric m is: before or in its omnibus cell, in
\* its post-hoc cell, or past both.
Phase(m) ==
  IF pc <= Omnibus(m) THEN "AwaitingOmnibus"
  ELSE IF pc = Posthoc(m) THEN "RunPosthoc"
  ELSE "Done"

\* C18: the evaluation of a metric changes phase only from AwaitingOmnibus
\* to RunPosthoc after a significant omnibus test, from AwaitingOmnibus to
\* Done after one that is not significant, and from RunPosthoc to Done.
\* (The post-hoc cell follows the omnibus cell whatever p is.)
C18_OnlySpecifiedTransitions ==
  [][\A m \in MetricSet :
       Phase(m)' # Phase(m) =>
         \/ /\ Phase(m) = "AwaitingOmnibus" /\ Phase(m)' = "RunPosthoc"
            /\ Significant(m)'
         \/ /\ Phase(m) = "AwaitingOmnibus" /\ Phase(m)' = "Done"
            /\ NotSignificant(m)'
         \/ Phase(m) = "RunPosthoc" /\ Phase(m)' = "Done"]_vars

----------------------------------------------------------------------------
\* The Wilcoxon tests of metric m's post-hoc cell are tests of the vectors
\* metric m's omnibus cell built for the two named algorithms.
OwnVectors(m) ==
  \A j \in 1..Len(hist) :
    hist[j].cell = Posthoc(m) /\ hist[j].fn = "wilcoxon" =>
      \A x \in 1..2 : hist[j].args[x] = Column(results[hist[j].names[x]], m)

\* C19: in a top-to-bottom run, the tests of a metric's post-hoc cell are
\* tests of that metric's own vectors, and the pair list the cell loops
\* over is the list of the pairs of the input's algorithms.  (The list is
\* built in the cell, from range(4).)
C19_PosthocUsesOwnData ==
  \A m \in MetricSet :
    /\ OwnVectors(m)
    /\ pc = Posthoc(m) /\ i >= 1 => n_compare = Combinations(K)

----------------------------------------------------------------------------
\* In a top-to-bottom run: the metric of the omnibus cell whose grouping
\* loop ran last.
BuiltFor ==
  Cells[IF Stopped /\ Cells[pc].stage = "omnibus" THEN pc ELSE pc - 1].metric

\* C20: once a grouping loop has run, alg_names and alg_vals have the same
\* length and alg_vals[j] is the column of algorithm alg_names[j]; the two
\* vectors of every Wilcoxon test are the columns of the two algorithms the
\* call names, in that order, and the j-th line a post-hoc cell prints
\* carries the names of its j-th test.
C20_NamesMatchVectors ==
  /\ Len(alg_names) = Len(alg_vals)
  /\ "alg_vals" \in defined =>
       \A j \in 1..Len(alg_vals) :
         alg_vals[j] = Column(results[alg_names[j]], BuiltFor)
  /\ \A c \in 1..Len(Cells) :
       Cells[c].stage = "posthoc" =>
         /\ \A j \in 1..Len(CallsOf(c)) :
              \A x \in 1..2 :
                CallsOf(c)[j].args[x] =
                  Column(results[CallsOf(c)[j].names[x]], Cells[c].metric)
         /\ Len(out[c]) = Len(ReturnsOf(c))
         /\ \A j \in 1..Len(out[c]) : out[c][j].Pair = ReturnsOf(c)[j].names

\* A post-hoc cell has printed its six lines for four algorithms whose
\* vectors differ from one another.
C20_Witness ==
  \E c \in 1..Len(Cells) :
    /\ Cells[c].stage = "posthoc" /\ Completed(c) /\ Len(out[c]) = 6
    /\ \A j, k \in 1..NAlgs : j # k => alg_vals[j] # alg_vals[k]

====
